---- MODULE Spec2Model ----
(***************************************************************************)
(* A model of the Axis Audio Manager client library: the official          *)
(* transport (AAMApi.py), the unofficial transport with its token          *)
(* lifecycle (AAMUnofficial.py), and the orchestrator with its typed       *)
(* target views and device cache (AxisAudioManager.py).                    *)
(*                                                                         *)
(* Python values are wrapped in records tagged by "py" so that None,       *)
(* booleans, lists and dicts can be held by the same variable.  Strings    *)
(* that the code takes apart (target ids such as zon_5) are sequences of   *)
(* one-character strings.  Every HTTP exchange is answered by the remote   *)
(* server, whose answer is an input of the action that performs it.        *)
(***************************************************************************)
EXTENDS Integers, Sequences, FiniteSets, TLC

VARIABLES
    web_username,     \* AxisAudioManager.web_username (None or a string)
    web_password,     \* AxisAudioManager.web_password (None or a string)
    now,              \* the value time.time() returns
    access_token,     \* AAMUnofficial.access_token
    expires_at,       \* AAMUnofficial.expires_at
    uno_headers,      \* the default headers dict of AAMUnofficial._execute_api_request
    api_headers,      \* the default headers dict of AAMApi._execute_api_request
    devices,          \* AxisAudioManager.devices, the device cache
    dev,              \* one AAMDevice view held by the caller
    last              \* the latest call: its arguments, outcome and network traffic

vars == <<web_username, web_password, now, access_token, expires_at,
          uno_headers, api_headers, devices, dev, last>>

----------------------------------------------------------------------------
(* Bounds of the model *)

\* the clock stops advancing at MaxTime
MaxTime == 3
\* the longest device listing the server answers with
MaxCache == 2
\* the longest official target listing the server answers with
MaxTargets == 2

----------------------------------------------------------------------------
(* Python values *)

None == [py |-> "None"]
Bool(b) == [py |-> "bool", v |-> b]
Str(s) == [py |-> "str", v |-> s]
List(s) == [py |-> "list", v |-> s]
Dict(d) == [py |-> "dict", v |-> d]

EmptyDict == [k \in {} |-> k]

\* x is computed once and F is applied to its value: result = x; return F(result)
Bind(x, F(_)) == CHOOSE y \in {F(v) : v \in {x}} : TRUE

\* d[k] = v on a dict
DictSet(d, k, v) == [x \in (DOMAIN d) \cup {k} |-> IF x = k THEN v ELSE d[x]]

\* str.split(sep) on a sequence of characters
RECURSIVE Split(_, _)
Split(s, sep) ==
    IF s = <<>> THEN << <<>> >>
    ELSE LET rest == Split(Tail(s), sep) IN
         IF Head(s) = sep THEN << <<>> >> \o rest
         ELSE << <<Head(s)>> \o Head(rest) >> \o Tail(rest)

\* A character is a one-character string; a character outside printable ASCII that
\* has no escape in a string is written by its code point, "U+000B" for the vertical tab.

\* the decimal digits int() reads, one tuple per script, from its zero to its nine
DigitBlocks ==
    {<<"0", "1", "2", "3", "4", "5", "6", "7", "8", "9">>,
     <<"U+0660", "U+0661", "U+0662", "U+0663", "U+0664", "U+0665", "U+0666", "U+0667", "U+0668", "U+0669">>,
     <<"U+06F0", "U+06F1", "U+06F2", "U+06F3", "U+06F4", "U+06F5", "U+06F6", "U+06F7", "U+06F8", "U+06F9">>,
     <<"U+07C0", "U+07C1", "U+07C2", "U+07C3", "U+07C4", "U+07C5", "U+07C6", "U+07C7", "U+07C8", "U+07C9">>,
     <<"U+0966", "U+0967", "U+0968", "U+0969", "U+096A", "U+096B", "U+096C", "U+096D", "U+096E", "U+096F">>,
     <<"U+09E6", "U+09E7", "U+09E8", "U+09E9", "U+09EA", "U+09EB", "U+09EC", "U+09ED", "U+09EE", "U+09EF">>,
     <<"U+0A66", "U+0A67", "U+0A68", "U+0A69", "U+0A6A", "U+0A6B", "U+0A6C", "U+0A6D", "U+0A6E", "U+0A6F">>,
     <<"U+0AE6", "U+0AE7", "U+0AE8", "U+0AE9", "U+0AEA", "U+0AEB", "U+0AEC", "U+0AED", "U+0AEE", "U+0AEF">>,
     <<"U+0B66", "U+0B67", "U+0B68", "U+0B69", "U+0B6A", "U+0B6B", "U+0B6C", "U+0B6D", "U+0B6E", "U+0B6F">>,
     <<"U+0BE6", "U+0BE7", "U+0BE8", "U+0BE9", "U+0BEA", "U+0BEB", "U+0BEC", "U+0BED", "U+0BEE", "U+0BEF">>,
     <<"U+0C66", "U+0C67", "U+0C68", "U+0C69", "U+0C6A", "U+0C6B", "U+0C6C", "U+0C6D", "U+0C6E", "U+0C6F">>,
     <<"U+0CE6", "U+0CE7", "U+0CE8", "U+0CE9", "U+0CEA", "U+0CEB", "U+0CEC", "U+0CED", "U+0CEE", "U+0CEF">>,
     <<"U+0D66", "U+0D67", "U+0D68", "U+0D69", "U+0D6A", "U+0D6B", "U+0D6C", "U+0D6D", "U+0D6E", "U+0D6F">>,
     <<"U+0DE6", "U+0DE7", "U+0DE8", "U+0DE9", "U+0DEA", "U+0DEB", "U+0DEC", "U+0DED", "U+0DEE", "U+0DEF">>,
     <<"U+0E50", "U+0E51", "U+0E52", "U+0E53", "U+0E54", "U+0E55", "U+0E56", "U+0E57", "U+0E58", "U+0E59">>,
     <<"U+0ED0", "U+0ED1", "U+0ED2", "U+0ED3", "U+0ED4", "U+0ED5", "U+0ED6", "U+0ED7", "U+0ED8", "U+0ED9">>,
     <<"U+0F20", "U+0F21", "U+0F22", "U+0F23", "U+0F24", "U+0F25", "U+0F26", "U+0F27", "U+0F28", "U+0F29">>,
     <<"U+1040", "U+1041", "U+1042", "U+1043", "U+1044", "U+1045", "U+1046", "U+1047", "U+1048", "U+1049">>,
     <<"U+1090", "U+1091", "U+1092", "U+1093", "U+1094", "U+1095", "U+1096", "U+1097", "U+1098", "U+1099">>,
     <<"U+17E0", "U+17E1", "U+17E2", "U+17E3", "U+17E4", "U+17E5", "U+17E6", "U+17E7", "U+17E8", "U+17E9">>,
     <<"U+1810", "U+1811", "U+1812", "U+1813", "U+1814", "U+1815", "U+1816", "U+1817", "U+1818", "U+1819">>,
     <<"U+1946", "U+1947", "U+1948", "U+1949", "U+194A", "U+194B", "U+194C", "U+194D", "U+194E", "U+194F">>,
     <<"U+19D0", "U+19D1", "U+19D2", "U+19D3", "U+19D4", "U+19D5", "U+19D6", "U+19D7", "U+19D8", "U+19D9">>,
     <<"U+1A80", "U+1A81", "U+1A82", "U+1A83", "U+1A84", "U+1A85", "U+1A86", "U+1A87", "U+1A88", "U+1A89">>,
     <<"U+1A90", "U+1A91", "U+1A92", "U+1A93", "U+1A94", "U+1A95", "U+1A96", "U+1A97", "U+1A98", "U+1A99">>,
     <<"U+1B50", "U+1B51", "U+1B52", "U+1B53", "U+1B54", "U+1B55", "U+1B56", "U+1B57", "U+1B58", "U+1B59">>,
     <<"U+1BB0", "U+1BB1", "U+1BB2", "U+1BB3", "U+1BB4", "U+1BB5", "U+1BB6", "U+1BB7", "U+1BB8", "U+1BB9">>,
     <<"U+1C40", "U+1C41", "U+1C42", "U+1C43", "U+1C44", "U+1C45", "U+1C46", "U+1C47", "U+1C48", "U+1C49">>,
     <<"U+1C50", "U+1C51", "U+1C52", "U+1C53", "U+1C54", "U+1C55", "U+1C56", "U+1C57", "U+1C58", "U+1C59">>,
     <<"U+A620", "U+A621", "U+A622", "U+A623", "U+A624", "U+A625", "U+A626", "U+A627", "U+A628", "U+A629">>,
     <<"U+A8D0", "U+A8D1", "U+A8D2", "U+A8D3", "U+A8D4", "U+A8D5", "U+A8D6", "U+A8D7", "U+A8D8", "U+A8D9">>,
     <<"U+A900", "U+A901", "U+A902", "U+A903", "U+A904", "U+A905", "U+A906", "U+A907", "U+A908", "U+A909">>,
     <<"U+A9D0", "U+A9D1", "U+A9D2", "U+A9D3", "U+A9D4", "U+A9D5", "U+A9D6", "U+A9D7", "U+A9D8", "U+A9D9">>,
     <<"U+A9F0", "U+A9F1", "U+A9F2", "U+A9F3", "U+A9F4", "U+A9F5", "U+A9F6", "U+A9F7", "U+A9F8", "U+A9F9">>,
     <<"U+AA50", "U+AA51", "U+AA52", "U+AA53", "U+AA54", "U+AA55", "U+AA56", "U+AA57", "U+AA58", "U+AA59">>,
     <<"U+ABF0", "U+ABF1", "U+ABF2", "U+ABF3", "U+ABF4", "U+ABF5", "U+ABF6", "U+ABF7", "U+ABF8", "U+ABF9">>,
     <<"U+FF10", "U+FF11", "U+FF12", "U+FF13", "U+FF14", "U+FF15", "U+FF16", "U+FF17", "U+FF18", "U+FF19">>,
     <<"U+104A0", "U+104A1", "U+104A2", "U+104A3", "U+104A4", "U+104A5", "U+104A6", "U+104A7", "U+104A8", "U+104A9">>,
     <<"U+10D30", "U+10D31", "U+10D32", "U+10D33", "U+10D34", "U+10D35", "U+10D36", "U+10D37", "U+10D38", "U+10D39">>,
     <<"U+11066", "U+11067", "U+11068", "U+11069", "U+1106A", "U+1106B", "U+1106C", "U+1106D", "U+1106E", "U+1106F">>,
     <<"U+110F0", "U+110F1", "U+110F2", "U+110F3", "U+110F4", "U+110F5", "U+110F6", "U+110F7", "U+110F8", "U+110F9">>,
     <<"U+11136", "U+11137", "U+11138", "U+11139", "U+1113A", "U+1113B", "U+1113C", "U+1113D", "U+1113E", "U+1113F">>,
     <<"U+111D0", "U+111D1", "U+111D2", "U+111D3", "U+111D4", "U+111D5", "U+111D6", "U+111D7", "U+111D8", "U+111D9">>,
     <<"U+112F0", "U+112F1", "U+112F2", "U+112F3", "U+112F4", "U+112F5", "U+112F6", "U+112F7", "U+112F8", "U+112F9">>,
     <<"U+11450", "U+11451", "U+11452", "U+11453", "U+11454", "U+11455", "U+11456", "U+11457", "U+11458", "U+11459">>,
     <<"U+114D0", "U+114D1", "U+114D2", "U+114D3", "U+114D4", "U+114D5", "U+114D6", "U+114D7", "U+114D8", "U+114D9">>,
     <<"U+11650", "U+11651", "U+11652", "U+11653", "U+11654", "U+11655", "U+11656", "U+11657", "U+11658", "U+11659">>,
     <<"U+116C0", "U+116C1", "U+116C2", "U+116C3", "U+116C4", "U+116C5", "U+116C6", "U+116C7", "U+116C8", "U+116C9">>,
     <<"U+11730", "U+11731", "U+11732", "U+11733", "U+11734", "U+11735", "U+11736", "U+11737", "U+11738", "U+11739">>,
     <<"U+118E0", "U+118E1", "U+118E2", "U+118E3", "U+118E4", "U+118E5", "U+118E6", "U+118E7", "U+118E8", "U+118E9">>,
     <<"U+11950", "U+11951", "U+11952", "U+11953", "U+11954", "U+11955", "U+11956", "U+11957", "U+11958", "U+11959">>,
     <<"U+11C50", "U+11C51", "U+11C52", "U+11C53", "U+11C54", "U+11C55", "U+11C56", "U+11C57", "U+11C58", "U+11C59">>,
     <<"U+11D50", "U+11D51", "U+11D52", "U+11D53", "U+11D54", "U+11D55", "U+11D56", "U+11D57", "U+11D58", "U+11D59">>,
     <<"U+11DA0", "U+11DA1", "U+11DA2", "U+11DA3", "U+11DA4", "U+11DA5", "U+11DA6", "U+11DA7", "U+11DA8", "U+11DA9">>,
     <<"U+16A60", "U+16A61", "U+16A62", "U+16A63", "U+16A64", "U+16A65", "U+16A66", "U+16A67", "U+16A68", "U+16A69">>,
     <<"U+16AC0", "U+16AC1", "U+16AC2", "U+16AC3", "U+16AC4", "U+16AC5", "U+16AC6", "U+16AC7", "U+16AC8", "U+16AC9">>,
     <<"U+16B50", "U+16B51", "U+16B52", "U+16B53", "U+16B54", "U+16B55", "U+16B56", "U+16B57", "U+16B58", "U+16B59">>,
     <<"U+1D7CE", "U+1D7CF", "U+1D7D0", "U+1D7D1", "U+1D7D2", "U+1D7D3", "U+1D7D4", "U+1D7D5", "U+1D7D6", "U+1D7D7">>,
     <<"U+1D7D8", "U+1D7D9", "U+1D7DA", "U+1D7DB", "U+1D7DC", "U+1D7DD", "U+1D7DE", "U+1D7DF", "U+1D7E0", "U+1D7E1">>,
     <<"U+1D7E2", "U+1D7E3", "U+1D7E4", "U+1D7E5", "U+1D7E6", "U+1D7E7", "U+1D7E8", "U+1D7E9", "U+1D7EA", "U+1D7EB">>,
     <<"U+1D7EC", "U+1D7ED", "U+1D7EE", "U+1D7EF", "U+1D7F0", "U+1D7F1", "U+1D7F2", "U+1D7F3", "U+1D7F4", "U+1D7F5">>,
     <<"U+1D7F6", "U+1D7F7", "U+1D7F8", "U+1D7F9", "U+1D7FA", "U+1D7FB", "U+1D7FC", "U+1D7FD", "U+1D7FE", "U+1D7FF">>,
     <<"U+1E140", "U+1E141", "U+1E142", "U+1E143", "U+1E144", "U+1E145", "U+1E146", "U+1E147", "U+1E148", "U+1E149">>,
     <<"U+1E2F0", "U+1E2F1", "U+1E2F2", "U+1E2F3", "U+1E2F4", "U+1E2F5", "U+1E2F6", "U+1E2F7", "U+1E2F8", "U+1E2F9">>,
     <<"U+1E950", "U+1E951", "U+1E952", "U+1E953", "U+1E954", "U+1E955", "U+1E956", "U+1E957", "U+1E958", "U+1E959">>,
     <<"U+1FBF0", "U+1FBF1", "U+1FBF2", "U+1FBF3", "U+1FBF4", "U+1FBF5", "U+1FBF6", "U+1FBF7", "U+1FBF8", "U+1FBF9">>}

Digits == UNION {{b[i] : i \in 1..10} : b \in DigitBlocks}
IsDigit(c) == c \in Digits

\* the value of one decimal digit
DigitValue(c) == CHOOSE v \in 0..9 : \E b \in DigitBlocks : b[v + 1] = c

\* the value of a sequence of decimal digits
RECURSIVE DecimalValue(_)
DecimalValue(s) ==
    IF Len(s) = 0 THEN 0
    ELSE 10 * DecimalValue(SubSeq(s, 1, Len(s) - 1)) + DigitValue(s[Len(s)])

\* the whitespace int() strips from both ends
Whitespace ==
    {"\t", "\n", "U+000B", "\f", "\r", " ", "U+0085", "U+00A0", "U+1680", "U+2000",
     "U+2001", "U+2002", "U+2003", "U+2004", "U+2005", "U+2006", "U+2007", "U+2008",
     "U+2009", "U+200A", "U+2028", "U+2029", "U+202F", "U+205F", "U+3000"}

RECURSIVE LStrip(_)
LStrip(s) == IF s # <<>> /\ Head(s) \in Whitespace THEN LStrip(Tail(s)) ELSE s

RECURSIVE RStrip(_)
RStrip(s) ==
    IF s # <<>> /\ s[Len(s)] \in Whitespace THEN RStrip(SubSeq(s, 1, Len(s) - 1)) ELSE s

\* s without the sign int() allows in front of the digits
Unsigned(s) == IF s # <<>> /\ Head(s) \in {"+", "-"} THEN Tail(s) ELSE s

\* digits, with single underscores allowed between two digits
IsDigitGroup(b) ==
    /\ Len(b) > 0
    /\ \A i \in 1..Len(b) : b[i] \in Digits \cup {"_"}
    /\ b[1] \in Digits /\ b[Len(b)] \in Digits
    /\ \A i \in 1..(Len(b) - 1) : ~(b[i] = "_" /\ b[i + 1] = "_")

\* int(s) accepts s: whitespace around an optional sign and a digit group of at
\* most 4300 digits (the interpreter's default limit for str to int conversion;
\* underscores, sign and whitespace are not counted, leading zeros are)
IntAccepts(s) ==
    /\ IsDigitGroup(Unsigned(RStrip(LStrip(s))))
    /\ Len(SelectSeq(Unsigned(RStrip(LStrip(s))), IsDigit)) <= 4300

\* the value int(s) returns for a string it accepts
IntValue(s) ==
    IF RStrip(LStrip(s))[1] = "-"
    THEN 0 - DecimalValue(SelectSeq(Unsigned(RStrip(LStrip(s))), IsDigit))
    ELSE DecimalValue(SelectSeq(Unsigned(RStrip(LStrip(s))), IsDigit))

\* int(s): ValueError on a string it does not accept
ParseInt(s) == IF IntAccepts(s) THEN IntValue(s) ELSE [raised |-> "ValueError"]

\* id.split("_")[1] exists: the id holds an underscore (IndexError otherwise)
HasNumber(id) == Len(Split(id, "_")) >= 2

\* id.split("_")[1]
IdNumber(id) == Split(id, "_")[2]

----------------------------------------------------------------------------
(* The remote server's answers *)

RTTs == {0, 1}
ExpiresIns == {0, 2}
TokenNames == {"tokA", "tokB"}

NoAnswer == [status |-> 0]

\* answers of POST oauth/token
TokenAnswers ==
    {[status |-> 401]}
    \cup {[status |-> 200, access_token |-> a, expires_in |-> e] :
              a \in TokenNames, e \in ExpiresIns}

----------------------------------------------------------------------------
(* AAMUnofficial: the unofficial transport *)

\* the transport object together with the clock it reads
Uno == [access_token |-> access_token, expires_at |-> expires_at,
        headers |-> uno_headers, now |-> now]

TokenRequest(t) ==
    [api |-> "uno", kind |-> "token", method |-> "POST", t |-> t,
     headers |-> [Accept |-> "application/json"], body |-> TRUE]

\* get_access_token: stores the token and its expiry on status 200
GetAccessToken(u, ans) ==
    IF ans.status = 200
    THEN [u |-> [u EXCEPT !.access_token = Str(ans.access_token),
                          !.expires_at = u.now + ans.expires_in],
          ret |-> Str(ans.access_token),
          net |-> <<TokenRequest(u.now)>>]
    ELSE [u |-> u, ret |-> None, net |-> <<TokenRequest(u.now)>>]

\* the guard of _execute_api_request
TokenNeeded(u) == u.access_token = None \/ u.now - u.expires_at > 0

\* the token step of _execute_api_request: a token exchange when one is needed
Acquire(u, ans) ==
    IF TokenNeeded(u) THEN GetAccessToken(u, ans.tok)
    ELSE [u |-> u, ret |-> u.access_token, net |-> <<>>]

\* the headers dict after _execute_api_request has written into it
RequestHeaders(headers, token, data) ==
    LET h1 == DictSet(headers, "Authorization", <<"Bearer", token>>)
        h2 == DictSet(h1, "Accept", "application/json")
    IN  IF data # None THEN DictSet(h2, "Content-Type", "application/json") ELSE h2

\* requests.request(...): the data request goes out, the server answers after ans.rtt
SendRequest(acq, url, data, method, ans) ==
    [u |-> [acq.u EXCEPT !.headers = RequestHeaders(acq.u.headers, acq.u.access_token, data),
                         !.now = acq.u.now + ans.rtt],
     raised |-> "none",
     response |-> [status_code |-> ans.status, body |-> ans.body],
     net |-> acq.net \o
             <<[api |-> "uno", kind |-> "data", method |-> method, t |-> acq.u.now,
                url |-> url, body |-> (data # None), data |-> data,
                headers |-> RequestHeaders(acq.u.headers, acq.u.access_token, data)]>>]

\* _execute_api_request: url is a record naming the endpoint, data is None or
\* a payload; ans = [tok, status, body, rtt] is what the server answers.
ExecuteApiRequest(u, url, data, method, ans) ==
    Bind(Acquire(u, ans), LAMBDA acq :
        IF acq.ret = None
        THEN [u |-> acq.u, raised |-> "RuntimeError", response |-> None, net |-> acq.net]
        ELSE SendRequest(acq, url, data, method, ans))

Outcome(u, raised, ret, net) == [u |-> u, raised |-> raised, ret |-> ret, net |-> net]

VolumesUrl(type, id) == [path |-> "webapi/v1/{type}/{id}/volumes", type |-> type, id |-> id]
VolumeCategoryUrl(type, id, category) ==
    [path |-> "webapi/v1/{type}/{id}/volumes/{category}", type |-> type, id |-> id,
     category |-> category]
SinksAssignmentUrl(zone_id) ==
    [path |-> "webapi/v1/zones/{zone_id}/sinksAssignment", zone_id |-> zone_id]
TestToneUrl == [path |-> "webapi/v1/testTone"]
DevicesUrl == [path |-> "webapi/v1/devices?size=2147483647"]

\* get_volume_calibration: the volumes mapping on 200, RuntimeError otherwise
GetVolumeCalibration(u, type, id, ans) ==
    Bind(ExecuteApiRequest(u, VolumesUrl(type, id), None, "GET", ans), LAMBDA r :
        IF r.raised # "none" THEN Outcome(r.u, r.raised, None, r.net)
        ELSE IF r.response.status_code = 200
             THEN Outcome(r.u, "none", Dict(r.response.body.data.volumes), r.net)
             ELSE Outcome(r.u, "RuntimeError", None, r.net))

\* set_volume_calibration: True exactly on 204
SetVolumeCalibration(u, type, id, category, volume, ans) ==
    Bind(ExecuteApiRequest(u, VolumeCategoryUrl(type, id, category),
                           Dict([defaultGainOffset |-> volume]), "PUT", ans), LAMBDA r :
        IF r.raised # "none" THEN Outcome(r.u, r.raised, None, r.net)
        ELSE Outcome(r.u, "none", Bool(r.response.status_code = 204), r.net))

\* device_id in response_data['successfulIds']
Contains(list, x) == \E i \in 1..Len(list) : list[i] = x

\* assign_device_to_zone: device_id arrives as a digit string and is parsed
AssignDeviceToZone(u, zone_id, device_id, ans) ==
    IF ~IntAccepts(device_id) THEN Outcome(u, "ValueError", None, <<>>)
    ELSE
    Bind(ExecuteApiRequest(u, SinksAssignmentUrl(zone_id),
                           Dict([sinkIds |-> <<ParseInt(device_id)>>]), "POST", ans),
         LAMBDA r :
        IF r.raised # "none" THEN Outcome(r.u, r.raised, None, r.net)
        ELSE IF r.response.status_code = 200
             THEN IF "successfulIds" \in DOMAIN r.response.body
                  THEN Outcome(r.u, "none",
                               Bool(Contains(r.response.body.successfulIds,
                                             ParseInt(device_id))),
                               r.net)
                  ELSE Outcome(r.u, "none", None, r.net)
             ELSE Outcome(r.u, "none", Bool(FALSE), r.net))

\* start_test_tone: True exactly on 201
StartTestTone(u, device_id, length, ans) ==
    IF ~IntAccepts(device_id) THEN Outcome(u, "ValueError", None, <<>>)
    ELSE
    Bind(ExecuteApiRequest(u, TestToneUrl,
                           Dict([sinkId |-> ParseInt(device_id), toneLength |-> length]),
                           "POST", ans), LAMBDA r :
        IF r.raised # "none" THEN Outcome(r.u, r.raised, None, r.net)
        ELSE Outcome(r.u, "none", Bool(r.response.status_code = 201), r.net))

\* AAMUnofficial.get_devices: the listing on 200, None otherwise
UnoGetDevices(u, ans) ==
    Bind(ExecuteApiRequest(u, DevicesUrl, None, "GET", ans), LAMBDA r :
        IF r.raised # "none" THEN Outcome(r.u, r.raised, None, r.net)
        ELSE IF r.response.status_code = 200
             THEN Outcome(r.u, "none", List(r.response.body), r.net)
             ELSE Outcome(r.u, "none", None, r.net))

----------------------------------------------------------------------------
(* AAMApi: the official transport *)

Api == [headers |-> api_headers]

\* the headers dict after AAMApi._execute_api_request has written into it
ApiRequestHeaders(headers, data) ==
    LET h1 == DictSet(headers, "Accept", "application/json")
    IN  IF data # None THEN DictSet(h1, "Content-Type", "application/json") ELSE h1

\* AAMApi._execute_api_request: digest authentication on every request
ApiExecuteApiRequest(api, url, data, method, ans) ==
    [u |-> [api EXCEPT !.headers = ApiRequestHeaders(api.headers, data)],
     raised |-> "none",
     response |-> [status_code |-> ans.status, body |-> ans.body],
     net |-> <<[api |-> "official", kind |-> "data", method |-> method, url |-> url,
                body |-> (data # None), data |-> data,
                headers |-> ApiRequestHeaders(api.headers, data)]>>]

TargetsUrl == [path |-> "api/v1.1/targets"]
TargetUrl(id) == [path |-> "api/v1.1/targets/{id}", id |-> id]
OneshotUrl == [path |-> "api/v1.1/audioSessions/oneshotPlayAudioFiles"]

\* AAMApi.get_audio_targets
ApiGetAudioTargets(api, ans) ==
    Bind(ApiExecuteApiRequest(api, TargetsUrl, None, "GET", ans), LAMBDA r :
        IF r.response.status_code = 200
        THEN Outcome(r.u, "none", List(r.response.body), r.net)
        ELSE Outcome(r.u, "RuntimeError", None, r.net))

\* AAMApi.get_audio_target: None on 404
ApiGetAudioTarget(api, id, ans) ==
    Bind(ApiExecuteApiRequest(api, TargetUrl(id), None, "GET", ans), LAMBDA r :
        IF r.response.status_code = 200
        THEN Outcome(r.u, "none", Dict(r.response.body), r.net)
        ELSE IF r.response.status_code = 404
             THEN Outcome(r.u, "none", None, r.net)
             ELSE Outcome(r.u, "RuntimeError", None, r.net))

\* the request of play_audio_file and what becomes of its response
PlayRequest(api, targets, files, repeat, priority, ans) ==
    Bind(ApiExecuteApiRequest(api, OneshotUrl,
                              Dict([fileIds |-> files, prio |-> priority,
                                    repeat |-> repeat, targets |-> targets]),
                              "POST", ans), LAMBDA r :
        IF r.response.status_code = 200
        THEN Outcome(r.u, "none", Dict(r.response.body), r.net)
        ELSE Outcome(r.u, "RuntimeError", None, r.net))

\* AAMApi.play_audio_file: the priority is checked first, then the two lists
ApiPlayAudioFileListsFirst(api, targets, files, repeat, priority, ans) ==
    IF Len(targets) < 1 \/ Len(files) < 1
    THEN Outcome(api, "none", None, <<>>)
    ELSE IF priority # "HIGH" /\ priority # "MEDIUM" /\ priority # "LOW"
         THEN Outcome(api, "KeyError", None, <<>>)
         ELSE PlayRequest(api, targets, files, repeat, priority, ans)

ApiPlayAudioFile(api, targets, files, repeat, priority, ans) ==
    IF priority # "HIGH" /\ priority # "MEDIUM" /\ priority # "LOW"
    THEN Outcome(api, "KeyError", None, <<>>)
    ELSE IF Len(targets) < 1 \/ Len(files) < 1
         THEN Outcome(api, "none", None, <<>>)
         ELSE PlayRequest(api, targets, files, repeat, priority, ans)

----------------------------------------------------------------------------
(* AxisAudioManager: the orchestrator *)

\* the orchestrator with the two transports it owns
Aam == [web_username |-> web_username, web_password |-> web_password,
        devices |-> devices, uno |-> Uno, api |-> Api]

Result(a, raised, ret, net) == [a |-> a, raised |-> raised, ret |-> ret, net |-> net]

AreUnofficialFeaturesEnabled(a) == a.web_username # None /\ a.web_password # None

\* _get_uno_api_object: None when the unofficial features are disabled
GetUnoApiObject(a) == IF AreUnofficialFeaturesEnabled(a) THEN a.uno ELSE None

\* the fetch of refresh_devices and the assignment of its result to self.devices
FetchDevices(a, u, ans) ==
    Bind(UnoGetDevices(u, ans), LAMBDA r :
        IF r.raised # "none"
        THEN Result([a EXCEPT !.uno = r.u], r.raised, None, r.net)
        ELSE Result([a EXCEPT !.uno = r.u, !.devices = r.ret], "none", None, r.net))

\* refresh_devices
RefreshDevicesAlwaysFetch(a, ans) == FetchDevices(a, a.uno, ans)

RefreshDevices(a, ans) ==
    IF AreUnofficialFeaturesEnabled(a)
    THEN FetchDevices(a, GetUnoApiObject(a), ans)
    ELSE Result([a EXCEPT !.devices = List(<<>>)], "none", None, <<>>)

\* get_devices: len(self.devices) raises TypeError when the cache holds None
GetDevices(a, ans) ==
    IF AreUnofficialFeaturesEnabled(a)
    THEN IF a.devices = None
         THEN Result(a, "TypeError", None, <<>>)
         ELSE IF Len(a.devices.v) = 0
              THEN Bind(RefreshDevices(a, ans), LAMBDA r :
                       IF r.raised # "none" THEN r
                       ELSE Result(r.a, "none", r.a.devices, r.net))
              ELSE Result(a, "none", a.devices, <<>>)
    ELSE Result(a, "none", a.devices, <<>>)

----------------------------------------------------------------------------
(* The typed views *)

\* AAMAudioTarget.__init__
NewAudioTarget(id, type) ==
    [class |-> "AAMAudioTarget", id |-> id, type |-> type,
     data |-> [enabled |-> FALSE, id |-> id, type |-> type, status |-> "unknown",
               valid |-> FALSE]]

\* AAMPhysicalZone.__init__
NewPhysicalZone(id) == [NewAudioTarget(id, "physicalZone") EXCEPT !.class = "AAMPhysicalZone"]

\* AAMSite.__init__
NewSite(id) == [NewAudioTarget(id, "site") EXCEPT !.class = "AAMSite"]

\* AAMDevice.__init__
NewDevice(id) ==
    [class |-> "AAMDevice", id |-> id, type |-> "device",
     data |-> [enabled |-> FALSE, id |-> id, type |-> "device", status |-> "unknown",
               valid |-> FALSE],
     device_info_loaded |-> FALSE, device_info |-> EmptyDict]

\* _load_json
LoadJson(view, json) == [view EXCEPT !.data = json, !.id = json.id, !.type = json.type]

\* get_cast_object
GetCastObjectNoZone(view) ==
    IF view.type = "site" THEN LoadJson(NewSite(view.data.id), view.data)
    ELSE IF view.type = "device" THEN LoadJson(NewDevice(view.data.id), view.data)
    ELSE LoadJson(view, view.data)

GetCastObject(view) ==
    IF view.type = "physicalZone" THEN LoadJson(NewPhysicalZone(view.data.id), view.data)
    ELSE IF view.type = "site" THEN LoadJson(NewSite(view.data.id), view.data)
    ELSE IF view.type = "device" THEN LoadJson(NewDevice(view.data.id), view.data)
    ELSE LoadJson(view, view.data)

\* the body of the loop of get_audio_targets: the typed view of one raw record
ViewOf(raw_target) ==
    Bind(LoadJson(NewAudioTarget(raw_target.id, raw_target.type), raw_target),
         LAMBDA target : GetCastObject(target))

\* the loop of get_audio_targets over the raw listing
RECURSIVE ClassifyAll(_)
ClassifyAll(raw_targets) ==
    IF raw_targets = <<>> THEN <<>>
    ELSE IF "type" \notin DOMAIN Head(raw_targets)
         THEN ClassifyAll(Tail(raw_targets))
         ELSE <<ViewOf(Head(raw_targets))>> \o ClassifyAll(Tail(raw_targets))

\* AxisAudioManager.get_audio_targets
GetAudioTargets(a, ans) ==
    Bind(ApiGetAudioTargets(a.api, ans), LAMBDA r :
        IF r.raised # "none"
        THEN Result([a EXCEPT !.api = r.u], r.raised, None, r.net)
        ELSE Result([a EXCEPT !.api = r.u], "none", List(ClassifyAll(r.ret.v)), r.net))

\* isinstance(target, cls) filter of get_audio_zones / get_audio_devices
RECURSIVE FilterClass(_, _)
FilterClass(targets, class) ==
    IF targets = <<>> THEN <<>>
    ELSE (IF Head(targets).class = class THEN <<Head(targets)>> ELSE <<>>)
         \o FilterClass(Tail(targets), class)

\* AxisAudioManager.get_audio_zones
GetAudioZones(a, ans) ==
    Bind(GetAudioTargets(a, ans), LAMBDA r :
        IF r.raised # "none" THEN r
        ELSE Result(r.a, "none", List(FilterClass(r.ret.v, "AAMPhysicalZone")), r.net))

\* AxisAudioManager.get_audio_devices
GetAudioDevices(a, ans) ==
    Bind(GetAudioTargets(a, ans), LAMBDA r :
        IF r.raised # "none" THEN r
        ELSE Result(r.a, "none", List(FilterClass(r.ret.v, "AAMDevice")), r.net))

----------------------------------------------------------------------------
(* AAMDevice: hardware lookup, zone assignment, test tone *)

DevResult(a, d, raised, ret, net) ==
    [a |-> a, d |-> d, raised |-> raised, ret |-> ret, net |-> net]

\* the inner loop: some sink of the device carries the id
SinkMatches(device, n) == \E j \in 1..Len(device.sinks) : device.sinks[j].id = n

\* the scan of _load_device_info: `this` is rebound on every match, `device`
\* is the loop variable and ends bound to the last entry scanned
RECURSIVE ScanDevices(_, _, _)
ScanDevices(devs, n, st) ==
    IF devs = <<>> THEN st
    ELSE ScanDevices(Tail(devs), n,
                     [this |-> IF SinkMatches(Head(devs), n) THEN Head(devs) ELSE st.this,
                      device |-> Head(devs)])

\* the end of _load_device_info: the record is stored when the scan bound `this`
StoreDeviceInfo(g, d, st) ==
    IF st.this # None
    THEN DevResult(g.a, [d EXCEPT !.device_info_loaded = TRUE, !.device_info = st.device],
                   "none", None, g.net)
    ELSE DevResult(g.a, d, "none", None, g.net)

\* the comparison of the inner loop is reached: some device of the listing has a sink
HasSink(devs) == \E i \in 1..Len(devs) : Len(devs[i].sinks) > 0

\* _load_device_info: int(self.id.split("_")[1]) is evaluated at the first sink
LoadDeviceInfo(a, d, ans) ==
    Bind(GetDevices(a, ans), LAMBDA g :
        IF g.raised # "none" THEN DevResult(g.a, d, g.raised, None, g.net)
        ELSE IF g.ret = None THEN DevResult(g.a, d, "TypeError", None, g.net)
        ELSE IF HasSink(g.ret.v) /\ ~HasNumber(d.id)
             THEN DevResult(g.a, d, "IndexError", None, g.net)
        ELSE IF HasSink(g.ret.v) /\ ~IntAccepts(IdNumber(d.id))
             THEN DevResult(g.a, d, "ValueError", None, g.net)
        \* without a sink the comparison is never reached and the id is never split
        ELSE IF ~HasSink(g.ret.v)
             THEN StoreDeviceInfo(g, d, ScanDevices(g.ret.v, 0,
                                                    [this |-> None, device |-> None]))
        ELSE Bind(ScanDevices(g.ret.v, ParseInt(IdNumber(d.id)),
                              [this |-> None, device |-> None]),
                  LAMBDA st : StoreDeviceInfo(g, d, st)))

\* get_device_information
GetDeviceInformation(a, d, ans) ==
    IF ~d.device_info_loaded
    THEN Bind(LoadDeviceInfo(a, d, ans), LAMBDA l :
             IF l.raised # "none" THEN l
             ELSE DevResult(l.a, l.d, "none", Dict(l.d.device_info), l.net))
    ELSE DevResult(a, d, "none", Dict(d.device_info), <<>>)

\* get_mac_address, get_ip_address, get_model_name, get_model_id,
\* get_firmware_version: get_device_information()[key]
GetHardwareField(a, d, key, ans) ==
    Bind(GetDeviceInformation(a, d, ans), LAMBDA g :
        IF g.raised # "none" THEN g
        ELSE IF key \in DOMAIN g.ret.v
             THEN DevResult(g.a, g.d, "none", Str(g.ret.v[key]), g.net)
             ELSE DevResult(g.a, g.d, "KeyError", None, g.net))

\* the three isinstance branches of assign_to_zone; a bool is an int to isinstance;
\* None stands for an unbound zone_id
ZoneIdOf(zone) ==
    IF zone.py = "AAMPhysicalZone" THEN Str(IdNumber(zone.v.id))
    ELSE IF zone.py = "int" \/ zone.py = "bool" THEN zone
    ELSE IF zone.py = "str" THEN Str(IdNumber(zone.v))
    ELSE None

\* a branch of assign_to_zone raises IndexError: the id it splits has no underscore
ZoneIdRaises(zone) ==
    \/ zone.py = "AAMPhysicalZone" /\ ~HasNumber(zone.v.id)
    \/ zone.py = "str" /\ ~HasNumber(zone.v)

\* the end of assign_to_zone: an unconditional _load_device_info, then the result
ReloadAfterAssign(a, d, r, ans2) ==
    Bind(LoadDeviceInfo(a, d, ans2), LAMBDA l :
        IF l.raised # "none" THEN DevResult(l.a, l.d, l.raised, None, r.net \o l.net)
        ELSE DevResult(l.a, l.d, "none", r.ret, r.net \o l.net))

\* assign_to_zone
AssignToZone(a, d, zone, ans1, ans2) ==
    IF ZoneIdRaises(zone) THEN DevResult(a, d, "IndexError", None, <<>>)
    ELSE IF GetUnoApiObject(a) = None THEN DevResult(a, d, "AttributeError", None, <<>>)
    ELSE IF ZoneIdOf(zone) = None THEN DevResult(a, d, "UnboundLocalError", None, <<>>)
    ELSE IF ~HasNumber(d.id) THEN DevResult(a, d, "IndexError", None, <<>>)
    ELSE Bind(AssignDeviceToZone(GetUnoApiObject(a), ZoneIdOf(zone), IdNumber(d.id), ans1),
              LAMBDA r :
             IF r.raised # "none"
             THEN DevResult([a EXCEPT !.uno = r.u], d, r.raised, None, r.net)
             ELSE ReloadAfterAssign([a EXCEPT !.uno = r.u], d, r, ans2))

\* ding
Ding(a, d, length, ans) ==
    IF GetUnoApiObject(a) = None THEN DevResult(a, d, "AttributeError", None, <<>>)
    ELSE IF ~HasNumber(d.id) THEN DevResult(a, d, "IndexError", None, <<>>)
    ELSE Bind(StartTestTone(GetUnoApiObject(a), IdNumber(d.id), length, ans), LAMBDA r :
             DevResult([a EXCEPT !.uno = r.u], d, r.raised, r.ret, r.net))

----------------------------------------------------------------------------
(* AAMVolumeTarget: volume calibration of a physical zone or a site *)

TypeClass(view) == IF view.type = "physicalZone" THEN "zones" ELSE "sites"

\* get_volume_calibration_level
GetVolumeCalibrationLevel(a, view, type, ans) ==
    IF ~AreUnofficialFeaturesEnabled(a)
    THEN Result(a, "NotImplementedError", None, <<>>)
    ELSE IF ~HasNumber(view.id) THEN Result(a, "IndexError", None, <<>>)
    ELSE Bind(GetVolumeCalibration(GetUnoApiObject(a), TypeClass(view),
                                   IdNumber(view.id), ans), LAMBDA r :
             IF r.raised # "none" THEN Result([a EXCEPT !.uno = r.u], r.raised, None, r.net)
             ELSE IF type = "ALL" THEN Result([a EXCEPT !.uno = r.u], "none", r.ret, r.net)
             ELSE IF type \in DOMAIN r.ret.v
                  THEN Result([a EXCEPT !.uno = r.u], "none",
                              [py |-> "int", v |-> r.ret.v[type]], r.net)
                  ELSE Result([a EXCEPT !.uno = r.u], "KeyError", None, r.net))

\* one of the three calls of the ALL branch, on transport u
SetOne(u, view, category, volume, ans) ==
    IF ~HasNumber(view.id) THEN Outcome(u, "IndexError", None, <<>>)
    ELSE SetVolumeCalibration(u, TypeClass(view), IdNumber(view.id), category, volume, ans)

\* the ALL branch of set_volume_calibration_level: three calls, each on the
\* transport state the previous one left
SetAllShortCircuit(a, view, volume, ans1, ans2, ans3) ==
    Bind(SetOne(GetUnoApiObject(a), view, "PAGING", volume, ans1), LAMBDA p :
    IF p.raised # "none" THEN Result([a EXCEPT !.uno = p.u], p.raised, None, p.net)
    ELSE IF ~p.ret.v THEN Result([a EXCEPT !.uno = p.u], "none", Bool(FALSE), p.net)
    ELSE Bind(SetOne(p.u, view, "ANNOUNCEMENT", volume, ans2), LAMBDA n :
    IF n.raised # "none"
    THEN Result([a EXCEPT !.uno = n.u], n.raised, None, p.net \o n.net)
    ELSE IF ~n.ret.v
         THEN Result([a EXCEPT !.uno = n.u], "none", Bool(FALSE), p.net \o n.net)
    ELSE Bind(SetOne(n.u, view, "MUSIC", volume, ans3), LAMBDA m :
    IF m.raised # "none"
    THEN Result([a EXCEPT !.uno = m.u], m.raised, None, p.net \o n.net \o m.net)
    ELSE Result([a EXCEPT !.uno = m.u], "none", Bool(p.ret.v /\ n.ret.v /\ m.ret.v),
                p.net \o n.net \o m.net))))

SetAll(a, view, volume, ans1, ans2, ans3) ==
    Bind(SetOne(GetUnoApiObject(a), view, "PAGING", volume, ans1), LAMBDA p :
    IF p.raised # "none" THEN Result([a EXCEPT !.uno = p.u], p.raised, None, p.net)
    ELSE Bind(SetOne(p.u, view, "ANNOUNCEMENT", volume, ans2), LAMBDA n :
    IF n.raised # "none"
    THEN Result([a EXCEPT !.uno = n.u], n.raised, None, p.net \o n.net)
    ELSE Bind(SetOne(n.u, view, "MUSIC", volume, ans3), LAMBDA m :
    IF m.raised # "none"
    THEN Result([a EXCEPT !.uno = m.u], m.raised, None, p.net \o n.net \o m.net)
    ELSE Result([a EXCEPT !.uno = m.u], "none", Bool(p.ret.v /\ n.ret.v /\ m.ret.v),
                p.net \o n.net \o m.net))))

\* set_volume_calibration_level
SetVolumeCalibrationLevel(a, view, volume, type, ans1, ans2, ans3) ==
    IF ~AreUnofficialFeaturesEnabled(a)
    THEN Result(a, "NotImplementedError", None, <<>>)
    ELSE IF type = "MUSIC" \/ type = "ANNOUNCEMENT" \/ type = "PAGING"
         THEN Bind(SetOne(GetUnoApiObject(a), view, type, volume, ans1), LAMBDA r :
                  Result([a EXCEPT !.uno = r.u], r.raised, r.ret, r.net))
    ELSE IF type = "ALL" THEN SetAll(a, view, volume, ans1, ans2, ans3)
    ELSE Result(a, "KeyError", None, <<>>)

----------------------------------------------------------------------------
(* Typed views: reload by id, parent zone *)

ViewResult(a, view, raised, ret, net) ==
    [a |-> a, view |-> view, raised |-> raised, ret |-> ret, net |-> net]

\* _load_json on whatever get_audio_target returned: the assignments run in order
\* and the first that fails leaves the earlier ones done
LoadFetched(view, target) ==
    IF target = None
    THEN [view |-> [view EXCEPT !.data = None], raised |-> "TypeError"]
    ELSE IF "type" \notin DOMAIN target.v
         THEN [view |-> [view EXCEPT !.data = target.v, !.id = target.v.id],
               raised |-> "KeyError"]
         ELSE [view |-> LoadJson(view, target.v), raised |-> "none"]

\* _load: fetch the record by the view's id and load it into the view
Load(a, view, ans) ==
    Bind(ApiGetAudioTarget(a.api, view.id, ans), LAMBDA r :
        IF r.raised # "none"
        THEN ViewResult([a EXCEPT !.api = r.u], view, r.raised, None, r.net)
        ELSE Bind(LoadFetched(view, r.ret), LAMBDA l :
                 ViewResult([a EXCEPT !.api = r.u], l.view, l.raised, None, r.net)))

DigitChar(n) ==
    CASE n = 0 -> "0" [] n = 1 -> "1" [] n = 2 -> "2" [] n = 3 -> "3" [] n = 4 -> "4"
      [] n = 5 -> "5" [] n = 6 -> "6" [] n = 7 -> "7" [] n = 8 -> "8" [] n = 9 -> "9"

\* str(n) for a natural number
RECURSIVE IntToStr(_)
IntToStr(n) == IF n < 10 THEN <<DigitChar(n)>>
               ELSE Append(IntToStr(n \div 10), DigitChar(n % 10))

\* get_device_information()['sinks'][0]['zones'][0]['id']: the value, or the error
\* of the first subscript that fails
FirstZoneId(info) ==
    IF "sinks" \notin DOMAIN info THEN [raised |-> "KeyError"]
    ELSE IF Len(info.sinks) = 0 THEN [raised |-> "IndexError"]
    ELSE IF "zones" \notin DOMAIN info.sinks[1] THEN [raised |-> "KeyError"]
    ELSE IF Len(info.sinks[1].zones) = 0 THEN [raised |-> "IndexError"]
    ELSE [raised |-> "none", id |-> info.sinks[1].zones[1].id]

\* the end of get_parent_zone: a PhysicalZone view of "zon_<n>", loaded at once
LoadParentZone(g, n, ans2) ==
    Bind(Load(g.a, NewPhysicalZone(<<"z", "o", "n", "_">> \o IntToStr(n)), ans2), LAMBDA l :
        IF l.raised # "none" THEN DevResult(l.a, g.d, l.raised, None, g.net \o l.net)
        ELSE DevResult(l.a, g.d, "none", l.view, g.net \o l.net))

\* get_parent_zone
GetParentZone(a, d, ans1, ans2) ==
    Bind(GetDeviceInformation(a, d, ans1), LAMBDA g :
        IF g.raised # "none" THEN g
        ELSE Bind(FirstZoneId(g.ret.v), LAMBDA z :
                 IF z.raised # "none" THEN DevResult(g.a, g.d, z.raised, None, g.net)
                 ELSE LoadParentZone(g, z.id, ans2)))

\* the loop of get_children: one _load and one get_cast_object per child id, in
\* list order; answers[i] is what the server answers to the i-th lookup
RECURSIVE GetChildrenFrom(_, _, _, _, _)
GetChildrenFrom(a, children, answers, output, net) ==
    IF children = <<>> THEN Result(a, "none", List(output), net)
    ELSE Bind(Load(a, NewAudioTarget(Head(children), "unknown"), Head(answers)), LAMBDA l :
             IF l.raised # "none" THEN Result(l.a, l.raised, None, net \o l.net)
             ELSE GetChildrenFrom(l.a, Tail(children), Tail(answers),
                                  Append(output, GetCastObject(l.view)), net \o l.net))

\* get_children
GetChildren(a, view, answers) ==
    IF "children" \notin DOMAIN view.data THEN Result(a, "none", List(<<>>), <<>>)
    ELSE GetChildrenFrom(a, view.data.children, answers, <<>>, <<>>)

----------------------------------------------------------------------------
(* The remaining public calls: raw listings of the official transport, playback on
   a view, the filtered children *)

AudioFilesUrl == [path |-> "api/v1.1/audioFiles"]

\* AAMApi.get_audio_files
ApiGetAudioFiles(api, ans) ==
    Bind(ApiExecuteApiRequest(api, AudioFilesUrl, None, "GET", ans), LAMBDA r :
        IF r.response.status_code = 200
        THEN Outcome(r.u, "none", List(r.response.body), r.net)
        ELSE Outcome(r.u, "RuntimeError", None, r.net))

\* the loop of AAMApi.get_audio_zones: the raw records whose type is physicalZone
RECURSIVE RawZones(_)
RawZones(targets) ==
    IF targets = <<>> THEN <<>>
    ELSE (IF "type" \in DOMAIN Head(targets) /\ Head(targets).type = "physicalZone"
          THEN <<Head(targets)>> ELSE <<>>)
         \o RawZones(Tail(targets))

\* AAMApi.get_audio_zones
ApiGetAudioZones(api, ans) ==
    Bind(ApiGetAudioTargets(api, ans), LAMBDA r :
        IF r.raised # "none" THEN r
        ELSE Outcome(r.u, "none", List(RawZones(r.ret.v)), r.net))

\* AAMAudioTarget.play_audio_files: response['id'] of what the transport returned
PlayAudioFiles(a, view, audio_files, repeat, priority, ans) ==
    Bind(ApiPlayAudioFile(a.api, <<view.id>>, audio_files, repeat, priority, ans), LAMBDA r :
        IF r.raised # "none" THEN Result([a EXCEPT !.api = r.u], r.raised, None, r.net)
        ELSE IF r.ret = None THEN Result([a EXCEPT !.api = r.u], "TypeError", None, r.net)
        ELSE IF "id" \notin DOMAIN r.ret.v
             THEN Result([a EXCEPT !.api = r.u], "KeyError", None, r.net)
        ELSE Result([a EXCEPT !.api = r.u], "none", Str(r.ret.v.id), r.net))

\* AAMAudioTarget.play_audio_file
PlayAudioFile(a, view, audio_file, repeat, priority, ans) ==
    PlayAudioFiles(a, view, <<audio_file>>, repeat, priority, ans)

\* get_children_zones / get_children_devices: the children of one class
GetChildrenOfClass(a, view, class, answers) ==
    Bind(GetChildren(a, view, answers), LAMBDA r :
        IF r.raised # "none" THEN r
        ELSE Result(r.a, "none", List(FilterClass(r.ret.v, class)), r.net))

\* get_children_zones
GetChildrenZones(a, view, answers) == GetChildrenOfClass(a, view, "AAMPhysicalZone", answers)

\* get_children_devices
GetChildrenDevices(a, view, answers) == GetChildrenOfClass(a, view, "AAMDevice", answers)

----------------------------------------------------------------------------
(* Inputs: ids, records and the server's replies *)

IdZon5 == <<"z", "o", "n", "_", "5">>
IdSit12 == <<"s", "i", "t", "_", "1", "2">>
IdDev1 == <<"d", "e", "v", "_", "1">>
IdDev12 == <<"d", "e", "v", "_", "1", "2">>

TargetIds == {IdZon5, IdSit12, IdDev1}
TargetTypes == {"physicalZone", "site", "device", "logicalZone"}
DeviceIds == {IdDev1, IdDev12}

\* raw records of the official listing: the type field may be missing
TargetRecords ==
    {[id |-> i] : i \in TargetIds}
    \cup {[id |-> i, type |-> t] : i \in TargetIds, t \in TargetTypes}

\* hardware records of the unofficial device listing
Sink(n) == [id |-> n, zones |-> <<[id |-> 5]>>]
Hardware(m, n) ==
    [mac |-> m, ipAddress |-> "10.0.0.1", productName |-> "C1410", type |-> "speaker",
     fwVersion |-> "11.2", sinks |-> <<Sink(n)>>]
DeviceRecords == {Hardware("aa", 1), Hardware("bb", 1), Hardware("cc", 12)}

RECURSIVE SeqsUpTo(_, _)
SeqsUpTo(S, n) ==
    IF n = 0 THEN {<<>>}
    ELSE LET shorter == SeqsUpTo(S, n - 1) IN
         shorter \cup {Append(q, x) : q \in {r \in shorter : Len(r) = n - 1}, x \in S}

DeviceListings == SeqsUpTo(DeviceRecords, MaxCache)
TargetListings == SeqsUpTo(TargetRecords, MaxTargets)

Reply(status, body) == [status |-> status, body |-> body]

DevicesReplies == {Reply(500, <<>>)} \cup {Reply(200, l) : l \in DeviceListings}
SetVolumeReplies == {Reply(204, <<>>), Reply(200, <<>>), Reply(500, <<>>)}
GetVolumeReplies ==
    {Reply(500, <<>>)}
    \cup {Reply(200, [data |-> [volumes |-> [MUSIC |-> m, ANNOUNCEMENT |-> 0, PAGING |-> g]]]) :
              m \in {0, 100}, g \in {0, -100}}
AssignReplies ==
    {Reply(500, <<>>), Reply(204, <<>>), Reply(200, [failedIds |-> <<1>>])}
    \cup {Reply(200, [successfulIds |-> ids]) : ids \in {<<>>, <<1>>, <<12, 1>>}}
TestToneReplies == {Reply(201, <<>>), Reply(200, <<>>), Reply(500, <<>>)}
TargetsReplies == {Reply(500, <<>>)} \cup {Reply(200, l) : l \in TargetListings}
PlayReplies == {Reply(200, [id |-> "session"]), Reply(500, <<>>)}

\* what the server may answer to one unofficial call made in transport state u:
\* a token answer only when the call asks for a token
UnoAnswers(u, replies) ==
    IF u = None
    THEN {[tok |-> NoAnswer, status |-> 0, body |-> <<>>, rtt |-> 0]}
    ELSE {[tok |-> k, status |-> r.status, body |-> r.body, rtt |-> d] :
             k \in (IF TokenNeeded(u) THEN TokenAnswers ELSE {NoAnswer}),
             r \in replies, d \in RTTs}

\* the transport a device-list fetch by get_devices would use, None when
\* get_devices makes no fetch
FetchBy(a) ==
    IF AreUnofficialFeaturesEnabled(a) /\ a.devices # None /\ Len(a.devices.v) = 0
    THEN a.uno ELSE None

Volumes == {-100000, 100000}
Categories == {"MUSIC", "ANNOUNCEMENT", "PAGING", "ALL", "SPEECH"}
Priorities == {"HIGH", "MEDIUM", "LOW", "URGENT", "high"}
FileLists == {<<>>, <<"f1">>, <<"f1", "f2">>}
TargetLists == {<<>>, <<IdZon5>>, <<IdZon5, IdDev1>>}
HardwareKeys == {"mac", "ipAddress", "productName", "type", "fwVersion"}

VolumeViews == {ViewOf([id |-> IdZon5, type |-> "physicalZone"]),
                ViewOf([id |-> IdSit12, type |-> "site"])}
ZoneArguments ==
    {[py |-> "AAMPhysicalZone", v |-> ViewOf([id |-> IdZon5, type |-> "physicalZone"])],
     [py |-> "int", v |-> 5],
     Bool(TRUE),
     [py |-> "str", v |-> IdZon5],
     [py |-> "str", v |-> <<"z", "o", "n", "5">>],
     [py |-> "AAMSite", v |-> ViewOf([id |-> IdSit12, type |-> "site"])]}

\* what the server may answer to a lookup of one target by id
TargetReplies ==
    {Reply(404, <<>>), Reply(500, <<>>)} \cup {Reply(200, t) : t \in TargetRecords}

MaxChildren == 2

\* children lists of a target record; the ids may name the parent itself
ChildIds == {IdDev1, IdZon5}
ChildLists == SeqsUpTo(ChildIds, MaxChildren)

\* the views get_children is called on: a zone with each children list, and a site
\* whose record has no children field
ParentViews ==
    {ViewOf([id |-> IdZon5, type |-> "physicalZone", children |-> c]) : c \in ChildLists}
    \cup {ViewOf([id |-> IdSit12, type |-> "site"])}

\* what the server may answer to the lookup of one child: not found, an error, or a
\* record, which may list the parent as its own child or lack a type
ChildRecords ==
    {[id |-> IdDev1, type |-> "device"],
     [id |-> IdZon5, type |-> "physicalZone", children |-> <<IdZon5>>],
     [id |-> IdSit12, type |-> "logicalZone"],
     [id |-> IdDev1]}
ChildReplies == {Reply(404, <<>>), Reply(500, <<>>)} \cup {Reply(200, t) : t \in ChildRecords}

FilesReplies == {Reply(200, <<>>), Reply(200, <<"f1">>), Reply(500, <<>>)}

\* what the server may answer to the lookups of the children of view
ChildAnswers(view) ==
    {q \in SeqsUpTo(ChildReplies, MaxChildren) :
        Len(q) = IF "children" \in DOMAIN view.data THEN Len(view.data.children) ELSE 0}

\* device ids handed to the transport: the numbers of the views, the empty string,
\* and strings int() accepts with a sign, or with whitespace and a digit of another script
TransportDeviceIds ==
    {IdNumber(i) : i \in DeviceIds} \cup {<<>>, <<"-", "1">>, <<"U+000B", "U+0661">>}

\* the scope and the id number the transport is asked about
VolumeScopes == {<<"zones", <<"5">>>>, <<"sites", <<"1", "2">>>>}

----------------------------------------------------------------------------
(* The state machine *)

Credentials == {None, Str("web")}

\* the caller holds no result and is free to make the next call
Idle == [op |-> "idle"]

\* the state after AxisAudioManager(...) and AAMDevice(aam, id) are constructed
Init ==
    /\ web_username \in Credentials
    /\ web_password \in Credentials
    /\ now = 0
    /\ access_token = None
    /\ expires_at = 0
    /\ uno_headers = EmptyDict
    /\ api_headers = EmptyDict
    /\ devices = List(<<>>)
    /\ dev \in {NewDevice(i) : i \in DeviceIds}
    /\ last = Idle

\* store what a call left behind and record the call
Commit(a, d, op, args, answers, raised, ret, net) ==
    /\ last = Idle
    /\ a.uno.now <= MaxTime
    /\ web_username' = a.web_username
    /\ web_password' = a.web_password
    /\ now' = a.uno.now
    /\ access_token' = a.uno.access_token
    /\ expires_at' = a.uno.expires_at
    /\ uno_headers' = a.uno.headers
    /\ api_headers' = a.api.headers
    /\ devices' = a.devices
    /\ dev' = d
    /\ last' = [op |-> op, args |-> args, answers |-> answers, raised |-> raised,
                ret |-> ret, net |-> net,
                before |-> [access_token |-> access_token, expires_at |-> expires_at,
                            now |-> now, devices |-> devices, dev |-> dev]]

\* time passes between calls
Tick ==
    /\ last = Idle
    /\ now < MaxTime
    /\ now' = now + 1
    /\ UNCHANGED <<web_username, web_password, access_token, expires_at, uno_headers,
                   api_headers, devices, dev, last>>

\* the caller has looked at the result of its call
Return ==
    /\ last # Idle
    /\ last' = Idle
    /\ UNCHANGED <<web_username, web_password, now, access_token, expires_at, uno_headers,
                   api_headers, devices, dev>>

DoRefreshDevices ==
    /\ last = Idle
    /\ \E ans \in UnoAnswers(GetUnoApiObject(Aam), DevicesReplies) :
       \E r \in {RefreshDevices(Aam, ans)} :
           Commit(r.a, dev, "refresh_devices", <<>>, <<ans>>, r.raised, r.ret, r.net)

DoGetDevices ==
    /\ last = Idle
    /\ \E ans \in UnoAnswers(FetchBy(Aam), DevicesReplies) :
       \E r \in {GetDevices(Aam, ans)} :
           Commit(r.a, dev, "get_devices", <<>>, <<ans>>, r.raised, r.ret, r.net)

DoGetAudioTargets ==
    /\ last = Idle
    /\ \E ans \in TargetsReplies :
       \E r \in {GetAudioTargets(Aam, ans)} :
           Commit(r.a, dev, "get_audio_targets", <<>>, <<ans>>, r.raised, r.ret, r.net)

DoGetAudioZones ==
    /\ last = Idle
    /\ \E ans \in TargetsReplies :
       \E r \in {GetAudioZones(Aam, ans)} :
           Commit(r.a, dev, "get_audio_zones", <<>>, <<ans>>, r.raised, r.ret, r.net)

DoGetAudioDevices ==
    /\ last = Idle
    /\ \E ans \in TargetsReplies :
       \E r \in {GetAudioDevices(Aam, ans)} :
           Commit(r.a, dev, "get_audio_devices", <<>>, <<ans>>, r.raised, r.ret, r.net)

\* AAMApi.play_audio_file called on the official transport
DoPlayAudioFile ==
    /\ last = Idle
    /\ \E targets \in TargetLists, files \in FileLists, priority \in Priorities :
       \E ans \in PlayReplies :
       \E r \in {ApiPlayAudioFile(Api, targets, files, 1, priority, ans)} :
           Commit([Aam EXCEPT !.api = r.u], dev, "play_audio_file",
                  <<targets, files, 1, priority>>, <<ans>>, r.raised, r.ret, r.net)

DoGetDeviceInformation ==
    /\ last = Idle
    /\ \E ans \in UnoAnswers(IF dev.device_info_loaded THEN None ELSE FetchBy(Aam),
                            DevicesReplies) :
       \E r \in {GetDeviceInformation(Aam, dev, ans)} :
           Commit(r.a, r.d, "get_device_information", <<>>, <<ans>>,
                  r.raised, r.ret, r.net)

DoGetHardwareField ==
    /\ last = Idle
    /\ \E key \in HardwareKeys :
       \E ans \in UnoAnswers(IF dev.device_info_loaded THEN None ELSE FetchBy(Aam),
                            DevicesReplies) :
       \E r \in {GetHardwareField(Aam, dev, key, ans)} :
           Commit(r.a, r.d, "get_hardware_field", <<key>>, <<ans>>,
                  r.raised, r.ret, r.net)

\* the transport the next call of a handler runs on, None when the handler ended
After(r) == IF r.raised = "none" THEN r.u ELSE None

\* no call was made
Skipped == Outcome(None, "skipped", None, <<>>)

DoAssignToZone ==
    /\ last = Idle
    /\ \E zone \in ZoneArguments :
       \E u \in {IF ZoneIdRaises(zone) \/ ZoneIdOf(zone) = None \/ ~HasNumber(dev.id)
                 THEN None ELSE GetUnoApiObject(Aam)} :
       \E ans1 \in UnoAnswers(u, AssignReplies) :
       \E first \in {IF u = None THEN Skipped
                     ELSE AssignDeviceToZone(u, ZoneIdOf(zone), IdNumber(dev.id), ans1)} :
       \E ans2 \in UnoAnswers(IF After(first) = None THEN None
                              ELSE FetchBy([Aam EXCEPT !.uno = first.u]),
                              DevicesReplies) :
       \E r \in {AssignToZone(Aam, dev, zone, ans1, ans2)} :
           Commit(r.a, r.d, "assign_to_zone", <<zone>>, <<ans1, ans2>>,
                  r.raised, r.ret, r.net)

DoDing ==
    /\ last = Idle
    /\ \E ans \in UnoAnswers(GetUnoApiObject(Aam), TestToneReplies) :
       \E r \in {Ding(Aam, dev, 2, ans)} :
           Commit(r.a, r.d, "ding", <<2>>, <<ans>>, r.raised, r.ret, r.net)

\* AAMUnofficial.get_access_token called on the transport
DoGetAccessToken ==
    /\ last = Idle
    /\ \E tok \in TokenAnswers :
       \E r \in {GetAccessToken(Uno, tok)} :
           Commit([Aam EXCEPT !.uno = r.u], dev, "get_access_token", <<>>,
                  <<[tok |-> tok, status |-> 0, body |-> <<>>, rtt |-> 0]>>,
                  "none", r.ret, r.net)

\* AAMUnofficial.assign_device_to_zone called on the transport, which the
\* orchestrator builds whatever the credentials are
DoAssignDeviceToZone ==
    /\ last = Idle
    /\ \E device_id \in TransportDeviceIds :
       \E ans \in UnoAnswers(IF IntAccepts(device_id) THEN Uno ELSE None, AssignReplies) :
       \E r \in {AssignDeviceToZone(Uno, Str(<<"5">>), device_id, ans)} :
           Commit([Aam EXCEPT !.uno = r.u], dev, "assign_device_to_zone",
                  <<Str(<<"5">>), device_id>>, <<ans>>, r.raised, r.ret, r.net)

DoGetVolumeCalibrationLevel ==
    /\ last = Idle
    /\ \E view \in VolumeViews, type \in Categories :
       \E ans \in UnoAnswers(GetUnoApiObject(Aam), GetVolumeReplies) :
       \E r \in {GetVolumeCalibrationLevel(Aam, view, type, ans)} :
           Commit(r.a, dev, "get_volume_calibration_level", <<view, type>>, <<ans>>,
                  r.raised, r.ret, r.net)

DoSetVolumeCalibrationLevel ==
    /\ last = Idle
    /\ \E view \in VolumeViews, volume \in Volumes, type \in Categories :
       \E u \in {IF type \in {"MUSIC", "ANNOUNCEMENT", "PAGING", "ALL"}
                 THEN GetUnoApiObject(Aam) ELSE None} :
       \E ans1 \in UnoAnswers(u, SetVolumeReplies) :
       \E p \in {IF u # None /\ type = "ALL"
                 THEN SetOne(u, view, "PAGING", volume, ans1) ELSE Skipped} :
       \E ans2 \in UnoAnswers(After(p), SetVolumeReplies) :
       \E n \in {IF After(p) # None
                 THEN SetOne(p.u, view, "ANNOUNCEMENT", volume, ans2) ELSE Skipped} :
       \E ans3 \in UnoAnswers(After(n), SetVolumeReplies) :
       \E r \in {SetVolumeCalibrationLevel(Aam, view, volume, type, ans1, ans2, ans3)} :
           Commit(r.a, dev, "set_volume_calibration_level",
                  <<view, volume, type>>, <<ans1, ans2, ans3>>, r.raised, r.ret, r.net)

DoGetParentZone ==
    /\ last = Idle
    /\ \E ans1 \in UnoAnswers(IF dev.device_info_loaded THEN None ELSE FetchBy(Aam),
                             DevicesReplies) :
       \E g \in {GetDeviceInformation(Aam, dev, ans1)} :
       \E ans2 \in (IF g.raised = "none" /\ FirstZoneId(g.ret.v).raised = "none"
                    THEN TargetReplies ELSE {Reply(0, <<>>)}) :
       \E r \in {GetParentZone(Aam, dev, ans1, ans2)} :
           Commit(r.a, r.d, "get_parent_zone", <<>>, <<ans1, ans2>>,
                  r.raised, r.ret, r.net)

DoGetChildren ==
    /\ last = Idle
    /\ \E view \in ParentViews :
       \E answers \in ChildAnswers(view) :
       \E r \in {GetChildren(Aam, view, answers)} :
           Commit(r.a, dev, "get_children", <<view>>, answers, r.raised, r.ret, r.net)

\* AAMApi.get_audio_files called on the official transport
DoApiGetAudioFiles ==
    /\ last = Idle
    /\ \E ans \in FilesReplies :
       \E r \in {ApiGetAudioFiles(Api, ans)} :
           Commit([Aam EXCEPT !.api = r.u], dev, "api_get_audio_files", <<>>, <<ans>>,
                  r.raised, r.ret, r.net)

\* AAMApi.get_audio_zones called on the official transport
DoApiGetAudioZones ==
    /\ last = Idle
    /\ \E ans \in TargetsReplies :
       \E r \in {ApiGetAudioZones(Api, ans)} :
           Commit([Aam EXCEPT !.api = r.u], dev, "api_get_audio_zones", <<>>, <<ans>>,
                  r.raised, r.ret, r.net)

\* play_audio_files on a zone, a site or the device
DoPlayAudioFiles ==
    /\ last = Idle
    /\ \E view \in VolumeViews \cup {dev}, files \in FileLists, priority \in Priorities :
       \E ans \in PlayReplies :
       \E r \in {PlayAudioFiles(Aam, view, files, 1, priority, ans)} :
           Commit(r.a, dev, "play_audio_files", <<view, files, 1, priority>>, <<ans>>,
                  r.raised, r.ret, r.net)

\* play_audio_file, one file, on a zone, a site or the device
DoTargetPlayAudioFile ==
    /\ last = Idle
    /\ \E view \in VolumeViews \cup {dev}, priority \in Priorities :
       \E ans \in PlayReplies :
       \E r \in {PlayAudioFile(Aam, view, "f1", 1, priority, ans)} :
           Commit(r.a, dev, "target_play_audio_file", <<view, "f1", 1, priority>>, <<ans>>,
                  r.raised, r.ret, r.net)

DoGetChildrenZones ==
    /\ last = Idle
    /\ \E view \in ParentViews :
       \E answers \in ChildAnswers(view) :
       \E r \in {GetChildrenZones(Aam, view, answers)} :
           Commit(r.a, dev, "get_children_zones", <<view>>, answers,
                  r.raised, r.ret, r.net)

DoGetChildrenDevices ==
    /\ last = Idle
    /\ \E view \in ParentViews :
       \E answers \in ChildAnswers(view) :
       \E r \in {GetChildrenDevices(Aam, view, answers)} :
           Commit(r.a, dev, "get_children_devices", <<view>>, answers,
                  r.raised, r.ret, r.net)

\* AAMUnofficial.start_test_tone called on the transport
DoStartTestTone ==
    /\ last = Idle
    /\ \E device_id \in TransportDeviceIds :
       \E ans \in UnoAnswers(IF IntAccepts(device_id) THEN Uno ELSE None, TestToneReplies) :
       \E r \in {StartTestTone(Uno, device_id, 2, ans)} :
           Commit([Aam EXCEPT !.uno = r.u], dev, "start_test_tone",
                  <<device_id, 2>>, <<ans>>, r.raised, r.ret, r.net)

\* AAMUnofficial.get_devices called on the transport: the cache is not touched
DoUnoGetDevices ==
    /\ last = Idle
    /\ \E ans \in UnoAnswers(Uno, DevicesReplies) :
       \E r \in {UnoGetDevices(Uno, ans)} :
           Commit([Aam EXCEPT !.uno = r.u], dev, "uno_get_devices", <<>>, <<ans>>,
                  r.raised, r.ret, r.net)

\* AAMUnofficial.get_volume_calibration called on the transport
DoGetVolumeCalibration ==
    /\ last = Idle
    /\ \E scope \in VolumeScopes :
       \E ans \in UnoAnswers(Uno, GetVolumeReplies) :
       \E r \in {GetVolumeCalibration(Uno, scope[1], scope[2], ans)} :
           Commit([Aam EXCEPT !.uno = r.u], dev, "get_volume_calibration",
                  <<scope[1], scope[2]>>, <<ans>>, r.raised, r.ret, r.net)

\* AAMUnofficial.set_volume_calibration called on the transport, which does not
\* check the category
DoSetVolumeCalibration ==
    /\ last = Idle
    /\ \E scope \in VolumeScopes, category \in {"MUSIC", "SPEECH"}, volume \in Volumes :
       \E ans \in UnoAnswers(Uno, SetVolumeReplies) :
       \E r \in {SetVolumeCalibration(Uno, scope[1], scope[2], category, volume, ans)} :
           Commit([Aam EXCEPT !.uno = r.u], dev, "set_volume_calibration",
                  <<scope[1], scope[2], category, volume>>, <<ans>>,
                  r.raised, r.ret, r.net)

Next ==
    \/ Tick
    \/ Return
    \/ DoRefreshDevices
    \/ DoGetDevices
    \/ DoGetAudioTargets
    \/ DoGetAudioZones
    \/ DoGetAudioDevices
    \/ DoPlayAudioFile
    \/ DoGetDeviceInformation
    \/ DoGetHardwareField
    \/ DoAssignToZone
    \/ DoDing
    \/ DoAssignDeviceToZone
    \/ DoGetVolumeCalibrationLevel
    \/ DoSetVolumeCalibrationLevel
    \/ DoGetParentZone
    \/ DoGetChildren
    \/ DoGetAccessToken
    \/ DoApiGetAudioFiles
    \/ DoApiGetAudioZones
    \/ DoPlayAudioFiles
    \/ DoTargetPlayAudioFile
    \/ DoGetChildrenZones
    \/ DoGetChildrenDevices
    \/ DoStartTestTone
    \/ DoUnoGetDevices
    \/ DoGetVolumeCalibration
    \/ DoSetVolumeCalibration

Spec == Init /\ [][Next]_vars

\* single-request calls on the unofficial transport, with time passing
NextUno ==
    \/ Tick \/ Return \/ DoDing \/ DoAssignDeviceToZone \/ DoGetAccessToken
    \/ DoStartTestTone \/ DoUnoGetDevices \/ DoGetVolumeCalibration
    \/ DoSetVolumeCalibration
SpecUno == Init /\ [][NextUno]_vars

\* volume calibration
NextVolume == Tick \/ Return \/ DoSetVolumeCalibrationLevel \/ DoGetVolumeCalibrationLevel
SpecVolume == Init /\ [][NextVolume]_vars

\* the device cache and the hardware lookup of a Device view
NextDevices ==
    \/ Return \/ DoRefreshDevices \/ DoGetDevices \/ DoGetDeviceInformation
    \/ DoGetHardwareField
SpecDevices == Init /\ [][NextDevices]_vars

\* the calls that need the unofficial transport
NextGate ==
    \/ Return \/ DoGetVolumeCalibrationLevel \/ DoSetVolumeCalibrationLevel
    \/ DoAssignToZone \/ DoDing \/ DoGetDeviceInformation \/ DoGetHardwareField
InitDisabled == Init /\ ~AreUnofficialFeaturesEnabled(Aam)
SpecGate == InitDisabled /\ [][NextGate]_vars

\* listing calls on an orchestrator without unofficial credentials
NextListing ==
    \/ Return \/ DoGetDevices \/ DoRefreshDevices \/ DoGetAudioTargets
    \/ DoGetAudioZones \/ DoGetAudioDevices
SpecOfficialOnly == InitDisabled /\ [][NextListing]_vars

\* classification of the official listing
NextTargets == Return \/ DoGetAudioTargets \/ DoGetAudioZones \/ DoGetAudioDevices
SpecTargets == Init /\ [][NextTargets]_vars

\* one-shot playback on the official transport
NextPlay ==
    \/ Return \/ DoPlayAudioFile \/ DoGetAudioTargets
    \/ DoPlayAudioFiles \/ DoTargetPlayAudioFile \/ DoApiGetAudioFiles \/ DoApiGetAudioZones
SpecPlay == Init /\ [][NextPlay]_vars

\* the reloads of typed views: the parent zone of a device, the children of a target
NextViews ==
    \/ Return \/ DoGetParentZone \/ DoGetChildren
    \/ DoGetChildrenZones \/ DoGetChildrenDevices
SpecViews == Init /\ [][NextViews]_vars

----------------------------------------------------------------------------
(* Properties *)

\* the calls of one kind
Called(op) == last # Idle /\ last.op = op

\* the requests of the latest call that went to the unofficial API, by kind
IsTokenRequest(q) == q.api = "uno" /\ q.kind = "token"
IsUnoDataRequest(q) == q.api = "uno" /\ q.kind = "data"
TokenRequests == SelectSeq(last.net, IsTokenRequest)
UnoDataRequests == SelectSeq(last.net, IsUnoDataRequest)

\* the calls that send a data request through the unofficial transport
RequestCalls ==
    {"ding", "assign_device_to_zone", "start_test_tone", "uno_get_devices",
     "get_volume_calibration", "set_volume_calibration"}

\* C1: a request issued at t >= T, T the expiry of the held token, is preceded
\* by exactly one token acquisition; a request issued at t < T by none; a
\* session without a token acquires one first.
C1_RefreshAtOrAfterExpiry ==
    last # Idle /\ last.op \in RequestCalls /\ last.net # <<>> =>
        LET held == last.before.access_token # None
            T == last.before.expires_at
            t == last.before.now
        IN  IF ~held \/ t >= T
            THEN Len(TokenRequests) = 1 /\ IsTokenRequest(last.net[1])
            ELSE Len(TokenRequests) = 0

\* The refresh rule the code follows: strictly after the expiry.
C1_RefreshStrictlyAfterExpiry ==
    last # Idle /\ last.op \in RequestCalls /\ last.net # <<>> =>
        LET held == last.before.access_token # None
            T == last.before.expires_at
            t == last.before.now
        IN  IF ~held \/ t > T
            THEN Len(TokenRequests) = 1 /\ IsTokenRequest(last.net[1])
            ELSE Len(TokenRequests) = 0

\* the numeric part of the id of the Device view, read off the two ids in use
DevNumber == IF dev.id = IdDev1 THEN 1 ELSE 12

\* the positions of the cache whose device has a sink with the view's number
MatchingPositions ==
    {i \in 1..Len(devices.v) :
        \E j \in 1..Len(devices.v[i].sinks) : devices.v[i].sinks[j].id = DevNumber}

\* a hardware load ran to its end against the cache now held
LoadedFromCache ==
    /\ Called("get_device_information")
    /\ ~last.before.dev.device_info_loaded
    /\ last.raised = "none"

\* C2: the hardware record stored by a load is the first device in cache order that
\* has a sink with the view's numeric id; without a match the record stays not loaded.
C2_FirstMatchStored ==
    LoadedFromCache =>
        IF MatchingPositions = {}
        THEN ~dev.device_info_loaded /\ dev.device_info = EmptyDict
        ELSE /\ dev.device_info_loaded
             /\ \E i \in MatchingPositions :
                    /\ \A k \in MatchingPositions : i <= k
                    /\ dev.device_info = devices.v[i]

\* What the code stores: the last entry of the cache, whenever some entry matches.
C2_LastEntryStored ==
    LoadedFromCache =>
        IF MatchingPositions = {}
        THEN ~dev.device_info_loaded /\ dev.device_info = EmptyDict
        ELSE dev.device_info_loaded /\ dev.device_info = devices.v[Len(devices.v)]

GatedCalls == {"get_volume_calibration_level", "set_volume_calibration_level",
               "assign_to_zone", "ding", "get_device_information", "get_hardware_field"}

\* C3: without both unofficial credentials every unofficial-only call fails with the
\* unsupported-operation error (NotImplementedError) and sends no request.
C3_GatedCallsUnsupported ==
    last # Idle /\ last.op \in GatedCalls /\ ~AreUnofficialFeaturesEnabled(Aam) =>
        last.raised = "NotImplementedError" /\ last.net = <<>>

\* The part of C3 the code keeps: no gated call sends a request.
C3_GatedCallsSendNothing ==
    last # Idle /\ last.op \in GatedCalls /\ ~AreUnofficialFeaturesEnabled(Aam) =>
        last.net = <<>>

\* C4: assign_device_to_zone returns a boolean for every response of the server, True
\* exactly when the status is 200 and successfulIds holds the device id.
C4_AssignReturnsBoolean ==
    Called("assign_device_to_zone") /\ last.raised = "none" =>
        LET reply == last.answers[1]
            number == ParseInt(last.args[2])
            success == /\ reply.status = 200
                       /\ "successfulIds" \in DOMAIN reply.body
                       /\ \E i \in 1..Len(reply.body.successfulIds) :
                              reply.body.successfulIds[i] = number
        IN  last.ret = Bool(success)

\* The same with the reply the code has no answer for set aside.
C4_AssignExceptMissingField ==
    Called("assign_device_to_zone") /\ last.raised = "none" =>
        LET reply == last.answers[1]
            number == ParseInt(last.args[2])
            success == /\ reply.status = 200
                       /\ "successfulIds" \in DOMAIN reply.body
                       /\ \E i \in 1..Len(reply.body.successfulIds) :
                              reply.body.successfulIds[i] = number
        IN  IF reply.status = 200 /\ "successfulIds" \notin DOMAIN reply.body
            THEN last.ret = None
            ELSE last.ret = Bool(success)

\* the token exchange of the latest call, if it made one, was refused
AcquisitionRefused == Len(TokenRequests) > 0 /\ last.raised = "RuntimeError"

\* C5: with the unofficial features enabled, get_devices and the hardware load of a
\* Device view never raise, whatever earlier device-list fetches answered (a refused
\* token exchange aside).
C5_AbsentListingNeverCrashes ==
    (Called("get_devices") \/ Called("get_device_information"))
    /\ AreUnofficialFeaturesEnabled(Aam) /\ ~AcquisitionRefused =>
        last.raised = "none"

ValidPriorities == {"HIGH", "MEDIUM", "LOW"}

\* C6: play_audio_file with a priority outside HIGH, MEDIUM, LOW fails with KeyError and
\* sends nothing, even with an empty list; with a valid priority and an empty target or
\* file list it returns None and sends nothing; a request is sent only when the priority
\* is valid and both lists are non-empty.
C6_PlayGate ==
    Called("play_audio_file") =>
        LET targets == last.args[1]
            files == last.args[2]
            priority == last.args[4]
            empty == Len(targets) = 0 \/ Len(files) = 0
        IN  /\ priority \notin ValidPriorities =>
                last.raised = "KeyError" /\ last.net = <<>>
            /\ priority \in ValidPriorities /\ empty =>
                last.raised = "none" /\ last.ret = None /\ last.net = <<>>
            /\ last.net # <<>> <=> (priority \in ValidPriorities /\ ~empty)
            /\ Len(last.net) <= 1

C6_Witness ==
    /\ Called("play_audio_file")
    /\ last.args[4] = "URGENT" /\ last.args[2] = <<>>
    /\ last.raised = "KeyError" /\ last.net = <<>>

\* the volume categories the latest call wrote, in the order of its requests
RECURSIVE CategoriesOf(_)
CategoriesOf(requests) ==
    IF requests = <<>> THEN <<>>
    ELSE <<Head(requests).url.category>> \o CategoriesOf(Tail(requests))

\* C7: with the unofficial features enabled, set_volume_calibration_level with ALL sends
\* the three writes PAGING, ANNOUNCEMENT, MUSIC in this order whatever status each is
\* answered with, and returns True exactly when all three are answered 204; with one
\* category it sends that one write and returns its result.  The sequence is cut short
\* only by a refused token exchange, which raises.
C7_SetAllIssuesThree ==
    Called("set_volume_calibration_level") /\ AreUnofficialFeaturesEnabled(Aam) =>
        LET type == last.args[3]
            written == CategoriesOf(UnoDataRequests)
            ok(i) == last.answers[i].status = 204
        IN  /\ type = "ALL" /\ last.raised = "none" =>
                /\ written = <<"PAGING", "ANNOUNCEMENT", "MUSIC">>
                /\ last.ret = Bool(ok(1) /\ ok(2) /\ ok(3))
            /\ type = "ALL" /\ last.raised # "none" =>
                /\ last.raised = "RuntimeError"
                /\ written \in {<<>>, <<"PAGING">>, <<"PAGING", "ANNOUNCEMENT">>}
                /\ IsTokenRequest(last.net[Len(last.net)])
                /\ last.answers[Len(written) + 1].tok.status # 200
            /\ type \in {"MUSIC", "ANNOUNCEMENT", "PAGING"} /\ last.raised = "none" =>
                /\ written = <<type>>
                /\ last.ret = Bool(ok(1))
            /\ type \in {"MUSIC", "ANNOUNCEMENT", "PAGING"} /\ last.raised # "none" =>
                /\ written = <<>>
                /\ last.answers[1].tok.status # 200

C7_Witness ==
    /\ Called("set_volume_calibration_level")
    /\ last.args[3] = "ALL"
    /\ last.answers[1].status = 500
    /\ last.answers[2].status = 204
    /\ last.answers[3].status = 204
    /\ Len(UnoDataRequests) = 3
    /\ last.ret = Bool(FALSE)

\* some request of the latest call went to the unofficial API
RECURSIVE AnyUno(_)
AnyUno(requests) ==
    IF requests = <<>> THEN FALSE
    ELSE Head(requests).api = "uno" \/ AnyUno(Tail(requests))

\* C8: on an orchestrator without unofficial credentials, no listing call sends a
\* request (token or data) to the unofficial API, the device cache stays empty and
\* get_devices returns an empty list.
C8_OfficialOnlyNeverUnofficial ==
    /\ devices = List(<<>>)
    /\ access_token = None
    /\ uno_headers = EmptyDict
    /\ last # Idle => ~AnyUno(last.net)
    /\ Called("get_devices") => last.raised = "none" /\ last.ret = List(<<>>)

C8_Witness ==
    /\ Called("get_devices")
    /\ ~AreUnofficialFeaturesEnabled(Aam)
    /\ api_headers # EmptyDict
    /\ last.ret = List(<<>>)

\* the kind of view a type string stands for
KindOf(type) ==
    CASE type = "physicalZone" -> "AAMPhysicalZone"
      [] type = "site" -> "AAMSite"
      [] type = "device" -> "AAMDevice"
      [] OTHER -> "AAMAudioTarget"

HasType(record) == "type" \in DOMAIN record
IsZoneRecord(record) == HasType(record) /\ record.type = "physicalZone"
IsDeviceRecord(record) == HasType(record) /\ record.type = "device"

\* the views are those of the records, one for one and in order
ViewsMatch(views, records) ==
    /\ Len(views) = Len(records)
    /\ \A i \in 1..Len(records) :
           /\ views[i].class = KindOf(records[i].type)
           /\ views[i].id = records[i].id
           /\ views[i].type = records[i].type
           /\ views[i].data = records[i]
           /\ views[i].id = IdZon5 /\ views[i].class = "AAMPhysicalZone" =>
                  TypeClass(views[i]) = "zones" /\ IdNumber(views[i].id) = <<"5">>

\* C9: get_audio_targets returns, in listing order, one view per record that has a type
\* and none for the others; the kind follows the type, any other type string giving the
\* generic view; the view keeps the record's id; get_audio_zones returns the physical
\* zone views and get_audio_devices the device views of that result.
C9_Classification ==
    (last # Idle /\ last.op \in {"get_audio_targets", "get_audio_zones", "get_audio_devices"}
     /\ last.raised = "none") =>
        LET listing == last.answers[1].body IN
        /\ last.op = "get_audio_targets" =>
               ViewsMatch(last.ret.v, SelectSeq(listing, HasType))
        /\ last.op = "get_audio_zones" =>
               ViewsMatch(last.ret.v, SelectSeq(listing, IsZoneRecord))
        /\ last.op = "get_audio_devices" =>
               ViewsMatch(last.ret.v, SelectSeq(listing, IsDeviceRecord))

C9_Witness ==
    /\ Called("get_audio_targets")
    /\ last.raised = "none"
    /\ last.answers[1].body = <<[id |-> IdDev1], [id |-> IdZon5, type |-> "physicalZone"]>>
    /\ Len(last.ret.v) = 1
    /\ last.ret.v[1].class = "AAMPhysicalZone"
    /\ TypeClass(last.ret.v[1]) = "zones"
    /\ IdNumber(last.ret.v[1].id) = <<"5">>

IssuedTokens == {<<"Bearer", Str(name)>> : name \in TokenNames}

\* the latest call got as far as _execute_api_request of the unofficial transport: it
\* was not stopped before it, by the missing transport object of a view (AttributeError)
\* or by int() on the device id (ValueError)
ReachesTransport ==
    /\ last # Idle
    /\ last.op \in RequestCalls
    /\ last.raised \notin {"AttributeError", "ValueError"}

\* C10: when a call on the unofficial transport needs a token (none held, or the held
\* token expired: the clock is at or past its expiry) and the token endpoint gives the
\* call no successful answer, the call fails with RuntimeError and its data request is
\* not sent; every data request carries a bearer token that a successful exchange stored.
C10_AcquisitionFailureFatal ==
    ReachesTransport =>
        LET needed == \/ last.before.access_token = None
                      \/ last.before.now >= last.before.expires_at
            refused == last.answers[1].tok.status # 200
        IN  /\ needed /\ refused =>
                /\ last.raised = "RuntimeError"
                /\ UnoDataRequests = <<>>
            /\ \A i \in 1..Len(UnoDataRequests) :
                   /\ UnoDataRequests[i].headers["Authorization"] \in IssuedTokens
                   /\ UnoDataRequests[i].headers["Authorization"][2] = access_token
            /\ UnoDataRequests # <<>> => access_token # None

\* what the code does: the failure is fatal when the code asks for a token, which it
\* does with no token held or with the clock strictly past the expiry; at the expiry
\* itself it asks for none and sends the data request on the held token
C10_FatalPastExpiry ==
    ReachesTransport =>
        LET needed == \/ last.before.access_token = None
                      \/ last.before.now > last.before.expires_at
            refused == last.answers[1].tok.status # 200
        IN  /\ needed /\ refused =>
                /\ last.raised = "RuntimeError"
                /\ UnoDataRequests = <<>>
                /\ Len(TokenRequests) = 1
                /\ access_token = last.before.access_token
            /\ ~needed => TokenRequests = <<>> /\ Len(UnoDataRequests) = 1
            /\ \A i \in 1..Len(UnoDataRequests) :
                   /\ UnoDataRequests[i].headers["Authorization"] \in IssuedTokens
                   /\ UnoDataRequests[i].headers["Authorization"][2] = access_token
            /\ UnoDataRequests # <<>> => access_token # None

\* a device-list fetch was answered before the latest call: the transport stores a
\* token only in a call that goes on to send its data request, and under SpecDevices
\* every data request of the unofficial transport is the device-list fetch
FetchedBefore == last.before.access_token # None

\* C11: once a device-list fetch has been answered, whatever the answer (a listing with
\* zero devices included), a later get_devices sends nothing and returns the cached
\* list unchanged.
C11_LoadedCacheNeverRefetches ==
    Called("get_devices") /\ AreUnofficialFeaturesEnabled(Aam) /\ FetchedBefore
    /\ last.before.devices # None =>
        /\ last.net = <<>>
        /\ last.ret = last.before.devices
        /\ devices = last.before.devices

\* what the code does: the cache is re-fetched exactly while it holds an empty list
C11_EmptyListingRefetched ==
    Called("get_devices") /\ AreUnofficialFeaturesEnabled(Aam) /\ FetchedBefore
    /\ last.before.devices # None =>
        (last.net # <<>>) = (last.before.devices = List(<<>>))

\* the requests of the latest call that went through _execute_api_request
IsDataRequest(q) == q.kind = "data"
DataRequests == SelectSeq(last.net, IsDataRequest)

\* C12: every request of either transport carries Accept: application/json, and carries
\* Content-Type: application/json exactly when it is sent with a body.
C12_ContentTypeIffBody ==
    last # Idle =>
        \A i \in 1..Len(DataRequests) :
            /\ "Accept" \in DOMAIN DataRequests[i].headers
            /\ DataRequests[i].headers["Accept"] = "application/json"
            /\ ("Content-Type" \in DOMAIN DataRequests[i].headers) = DataRequests[i].body

\* what the code does: the header is set with a body and never removed from the
\* shared default dict, so it is present from the first request with a body on
C12_ContentTypeSticks ==
    /\ last # Idle =>
           \A i \in 1..Len(DataRequests) :
               /\ DataRequests[i].headers["Accept"] = "application/json"
               /\ DataRequests[i].body => "Content-Type" \in DOMAIN DataRequests[i].headers
               /\ DataRequests[i].api = "official" =>
                      DataRequests[i].headers = api_headers
    /\ [][DOMAIN api_headers \subseteq DOMAIN api_headers']_vars

\* C13: the view get_parent_zone returns is a PhysicalZone whose type is physicalZone,
\* whatever record the server answered to its load, so its calibration scope is zones.
C13_TypeFixedByKind ==
    Called("get_parent_zone") /\ last.raised = "none" =>
        /\ last.ret.class = "AAMPhysicalZone"
        /\ last.ret.type = "physicalZone"
        /\ TypeClass(last.ret) = "zones"

\* what the code does: the view keeps its class and takes the type and the id of the
\* record the server answered
C13_TypeFollowsRecord ==
    Called("get_parent_zone") /\ last.raised = "none" =>
        /\ last.ret.class = "AAMPhysicalZone"
        /\ last.ret.type = last.answers[2].body.type
        /\ last.ret.id = last.answers[2].body.id
        /\ TypeClass(last.ret) = "zones" <=> last.ret.type = "physicalZone"

\* the children list of the view get_children was called on, empty without the field
ChildrenOf(view) == IF "children" \in DOMAIN view.data THEN view.data.children ELSE <<>>

\* the server answered a lookup with a record that carries a type, or with not found
FoundOrNotFound(ans) ==
    ans.status = 404 \/ (ans.status = 200 /\ "type" \in DOMAIN ans.body)

\* C14: when every child lookup is answered found or not found, get_children does not
\* raise, sends exactly one lookup per entry of the children list in list order and
\* none for grandchildren, and returns an empty list for a record without children.
C14_ChildrenOneHopNoRaise ==
    Called("get_children")
    /\ (\A i \in 1..Len(last.answers) : FoundOrNotFound(last.answers[i])) =>
        LET children == ChildrenOf(last.args[1]) IN
        /\ last.raised = "none"
        /\ Len(last.net) = Len(children)
        /\ \A i \in 1..Len(children) :
               last.net[i].method = "GET" /\ last.net[i].url = TargetUrl(children[i])
        /\ "children" \notin DOMAIN last.args[1].data => last.ret = List(<<>>)

\* what the code does: the lookups stop at the first child answered not found, with
\* TypeError; when every child is found there is one lookup and one view per child
C14_NotFoundChildRaises ==
    Called("get_children")
    /\ (\A i \in 1..Len(last.answers) : FoundOrNotFound(last.answers[i])) =>
        LET children == ChildrenOf(last.args[1])
            missing == {i \in 1..Len(children) : last.answers[i].status = 404}
        IN  /\ \A i \in 1..Len(last.net) :
                   last.net[i].method = "GET" /\ last.net[i].url = TargetUrl(children[i])
            /\ missing = {} =>
                   /\ last.raised = "none"
                   /\ Len(last.net) = Len(children)
                   /\ Len(last.ret.v) = Len(children)
            /\ missing # {} =>
                   /\ last.raised = "TypeError"
                   /\ \E i \in missing : Len(last.net) = i /\ \A j \in missing : i <= j

====
